---- MODULE Spec2Model ----
(***************************************************************************)
(* A model of hbaselines' experience replay buffer                         *)
(* (hbaselines/fcnet/replay_buffer.py), of the rollout generator           *)
(* RLAlgorithm._collect_samples (hbaselines/trpo/algorithm.py) and of the  *)
(* policy update PPO._train (hbaselines/trpo/ppo.py).                      *)
(*                                                                         *)
(* The specifications share the variables:                                 *)
(*   Spec         the buffer under add / sample / can_sample / is_full     *)
(*   SpecPersist  the buffer under add / save / load into a fresh buffer   *)
(*   SpecContinue the buffer and a fresh buffer that loaded its snapshot,  *)
(*                under the same further calls of add                      *)
(*   SpecRollout  the rollout generator, its consumer and the environment  *)
(*   SpecScenario the rollout generator with n_samples = 4 on an           *)
(*                environment whose episodes last 2 steps, reward 1 a step *)
(*   SpecTrain    one call of PPO._train, one session run at a time        *)
(***************************************************************************)
EXTENDS Integers, Sequences, FiniteSets, TLC

VARIABLES
    buf,        \* the ReplayBuffer object under test (its fields)
    hist,       \* history: the transitions passed to buf.add, in call order
    ret,        \* the value returned (or error raised) by the last call
    disk,       \* the files written by save under one path prefix, or NoFile
    snap,       \* history: the fields of buf at the moment of the last save
    restored,   \* a second, freshly constructed buffer that calls load
    origin,     \* history: the value of snap when restored called load
    gen,        \* the locals of the generator _collect_samples
    arrays,     \* the generator's per-step history arrays (numpy, mutable)
    seg,        \* the dict held by the consumer after the last yield
    yields,     \* history: the number of yields so far
    env,        \* the environment's state
    theta,      \* the policy's parameters (a version number)
    log,        \* history of the rollout: one record per environment step
    ppo,        \* the PPO object's fields and the locals of its _train call
    runs        \* history: the session runs made by _train, in order

bufVars == <<buf, hist, ret, disk, snap, restored, origin>>
rollVars == <<gen, arrays, seg, yields, env, theta, log>>
trainVars == <<ppo, runs>>
vars == <<buf, hist, ret, disk, snap, restored, origin,
          gen, arrays, seg, yields, env, theta, log, ppo, runs>>

----------------------------------------------------------------------------
(* Bounds of the model. *)

MaxCap == 3        \* buffer_size ranges over 1..MaxCap
MaxBatch == 2      \* batch_size ranges over 1..MaxBatch
MaxPayload == 3    \* transitions T(0)..T(MaxPayload)
MaxInserts == 5    \* at most this many calls of add
MaxN == 2          \* n_samples ranges over 1..MaxN
MaxSteps == 4      \* at most this many environment steps in a rollout
MaxScenarioSteps == 8  \* the same, for the environment of fixed episodes
MaxEpochs == 2     \* optim_epochs ranges over 0, 1/2, 1, ... MaxEpochs
MaxMinibatches == 2  \* a pass over the dataset has 1..MaxMinibatches batches
MaxTimesteps == 4  \* timesteps_so_far ranges over 0..MaxTimesteps
MaxTotal == 3      \* total_timesteps ranges over 1..MaxTotal

Min(a, b) == IF a <= b THEN a ELSE b
Max(a, b) == IF a >= b THEN a ELSE b

----------------------------------------------------------------------------
(* ReplayBuffer.                                                           *)
(* A row of obs_t / action_t / obs_tp1 is modelled as one number, and      *)
(* every payload is a small integer, which float32 storage holds exactly.  *)

Payloads == 0..MaxPayload

\* The arguments of one add call, with different values in the five fields
\* and no field combination equal to a zero-filled slot.
Transition(p) ==
    [obs_t |-> p, action |-> p + 10, reward |-> p + 20,
     obs_tp1 |-> p + 1, done |-> p % 2]

\* np.zeros(buffer_size): an array indexed 0..buffer_size-1
Zeros(n) == [i \in 0..(n - 1) |-> 0]

\* __init__
NewBuffer(buffer_size, batch_size) ==
    [maxsize |-> buffer_size,
     size |-> 0,
     current_idx |-> 0,
     next_idx |-> 0,
     batch_size |-> batch_size,
     obs_t |-> Zeros(buffer_size),
     action_t |-> Zeros(buffer_size),
     reward |-> Zeros(buffer_size),
     obs_tp1 |-> Zeros(buffer_size),
     done |-> Zeros(buffer_size)]

\* __len__
BufLen(b) == b.size

\* buffer_size property
BufferSize(b) == b.maxsize

\* Faulty variant: a strict comparison.
CanSampleStrict(b) == b.size > b.batch_size

\* can_sample
CanSampleValue(b) == BufLen(b) >= b.batch_size

\* is_full
IsFull(b) == BufLen(b) = BufferSize(b)

\* The five fields stored in slot i.
Slot(b, i) ==
    [obs_t |-> b.obs_t[i], action |-> b.action_t[i], reward |-> b.reward[i],
     obs_tp1 |-> b.obs_tp1[i], done |-> b.done[i]]

\* add, lines 107-111: the five writes at _next_idx
WriteSlot(b, t) ==
    [b EXCEPT !.obs_t[b.next_idx] = t.obs_t,
              !.action_t[b.next_idx] = t.action,
              !.reward[b.next_idx] = t.reward,
              !.obs_tp1[b.next_idx] = t.obs_tp1,
              !.done[b.next_idx] = t.done]

\* Faulty variant: _current_idx assigned after _next_idx has advanced.
NextCurrentIdxAfter(b) == (b.next_idx + 1) % b.maxsize

\* add, line 114
NextCurrentIdx(b) == b.next_idx

\* Faulty variant: the cursor stops advancing once the buffer is full.
NextNextIdxUntilFull(b) ==
    IF b.size < b.maxsize THEN (b.next_idx + 1) % b.maxsize ELSE b.next_idx

\* Faulty variant: the cursor saturates at the last slot instead of wrapping.
NextNextIdxSaturating(b) == Min(b.next_idx + 1, b.maxsize - 1)

\* add, line 115
NextNextIdx(b) == (b.next_idx + 1) % b.maxsize

\* Faulty variant: the size is not capped at the capacity.
NextSizeUncapped(b) == b.size + 1

\* add, line 116
NextSize(b) == Min(b.size + 1, b.maxsize)

\* add
AddTo(b, t) ==
    [WriteSlot(b, t) EXCEPT !.current_idx = NextCurrentIdx(b),
                            !.next_idx = NextNextIdx(b),
                            !.size = NextSize(b)]

\* Faulty variant: an empty range is widened to {low} instead of raising.
RandIntClamped(low, high, n) == [1..n -> low..Max(high - 1, low)]

\* np.random.randint(low, high, size=n): the arrays of n integers of
\* [low, high) it can return; none when low >= high (it raises ValueError).
RandInt(low, high, n) == [1..n -> low..(high - 1)]

\* Faulty variant: indices are drawn from the whole capacity.
SampleHighCapacity(b) == b.maxsize

\* sample, line 135: the exclusive upper end of the index range
SampleHigh(b) == b.size

\* sample, lines 137-138: the five arrays gathered at idxes
Gather(b, idxes) ==
    [obs_t |-> [i \in DOMAIN idxes |-> b.obs_t[idxes[i]]],
     action |-> [i \in DOMAIN idxes |-> b.action_t[idxes[i]]],
     reward |-> [i \in DOMAIN idxes |-> b.reward[idxes[i]]],
     obs_tp1 |-> [i \in DOMAIN idxes |-> b.obs_tp1[idxes[i]]],
     done |-> [i \in DOMAIN idxes |-> b.done[idxes[i]]]]

NoReturn == [op |-> "none"]

\* Faulty variant: the record written with _next_idx before _current_idx.
SaveConfigCursorFirst(b) ==
    <<b.maxsize, b.size, b.next_idx, b.current_idx, b.batch_size>>

\* save, lines 42-47: the configuration record
SaveConfig(b) ==
    <<b.maxsize, b.size, b.current_idx, b.next_idx, b.batch_size>>

\* save: the six files
SaveFiles(b) ==
    [obs_t |-> b.obs_t, action_t |-> b.action_t, reward |-> b.reward,
     obs_tp1 |-> b.obs_tp1, done |-> b.done, config |-> SaveConfig(b)]

\* Faulty variant: the record unpacked with _next_idx before _current_idx.
LoadConfigCursorFirst(b, config) ==
    [b EXCEPT !.maxsize = config[1],
              !.size = config[2],
              !.next_idx = config[3],
              !.current_idx = config[4],
              !.batch_size = config[5]]

\* load, lines 56-60: the tuple unpacking of the configuration record
LoadConfig(b, config) ==
    [b EXCEPT !.maxsize = config[1],
              !.size = config[2],
              !.current_idx = config[3],
              !.next_idx = config[4],
              !.batch_size = config[5]]

\* Faulty variant: only the configuration record is read back.
LoadFilesConfigOnly(b, files) == LoadConfig(b, files.config)

\* load
LoadFiles(b, files) ==
    LoadConfig([b EXCEPT !.obs_t = files.obs_t,
                         !.action_t = files.action_t,
                         !.reward = files.reward,
                         !.obs_tp1 = files.obs_tp1,
                         !.done = files.done],
               files.config)

NoFile == [config |-> <<>>]
NoSnap == [maxsize |-> 0]

----------------------------------------------------------------------------
(* The variables of the rollout generator and of the policy update are     *)
(* idle in the specifications of the other components.                     *)

IdleRollout ==
    /\ gen = [pc |-> "idle"]
    /\ arrays = [n |-> 0]
    /\ seg = [k |-> 0]
    /\ yields = 0
    /\ env = [clock |-> 0]
    /\ theta = 0
    /\ log = <<>>

IdleTrain ==
    /\ ppo = [pc |-> "idle"]
    /\ runs = <<>>

----------------------------------------------------------------------------
(* Actions of the buffer. *)

\* The payloads a caller may pass next: one passed before, or the next new
\* one. The buffer never inspects what it stores, so naming the payloads
\* in order of first use loses no behaviour.
NextPayloads ==
    {p \in Payloads : p <= Cardinality({hist[k].obs_t : k \in DOMAIN hist})}

\* buf.add(obs_t, action, reward, obs_tp1, done)
Add ==
    /\ Len(hist) < MaxInserts
    /\ \E p \in NextPayloads :
          /\ buf' = AddTo(buf, Transition(p))
          /\ hist' = Append(hist, Transition(p))
    /\ ret' = NoReturn
    /\ UNCHANGED <<disk, snap, restored, origin>>
    /\ UNCHANGED <<rollVars, trainVars>>

\* buf.sample()
Sample ==
    /\ IF RandInt(0, SampleHigh(buf), buf.batch_size) = {}
       THEN ret' = [op |-> "sample", raised |-> "ValueError",
                    idxes |-> <<>>, batch |-> Gather(buf, <<>>)]
       ELSE \E idxes \in RandInt(0, SampleHigh(buf), buf.batch_size) :
               ret' = [op |-> "sample", raised |-> "none",
                       idxes |-> idxes, batch |-> Gather(buf, idxes)]
    /\ UNCHANGED <<buf, hist, disk, snap, restored, origin>>
    /\ UNCHANGED <<rollVars, trainVars>>

\* buf.can_sample()
CanSample ==
    /\ ret' = [op |-> "can_sample", value |-> CanSampleValue(buf)]
    /\ UNCHANGED <<buf, hist, disk, snap, restored, origin>>
    /\ UNCHANGED <<rollVars, trainVars>>

\* buf.is_full()
IsFullCall ==
    /\ ret' = [op |-> "is_full", value |-> IsFull(buf)]
    /\ UNCHANGED <<buf, hist, disk, snap, restored, origin>>
    /\ UNCHANGED <<rollVars, trainVars>>

\* buf.save(save_path)
Save ==
    /\ disk' = SaveFiles(buf)
    /\ snap' = buf
    /\ ret' = NoReturn
    /\ UNCHANGED <<buf, hist, restored, origin>>
    /\ UNCHANGED <<rollVars, trainVars>>

\* restored = ReplayBuffer(buf's capacity, some batch size, ...);
\* restored.load(save_path)
Load ==
    /\ disk # NoFile
    /\ \E bs \in 1..MaxBatch :
          restored' = LoadFiles(NewBuffer(buf.maxsize, bs), disk)
    /\ origin' = snap
    /\ ret' = NoReturn
    /\ UNCHANGED <<buf, hist, disk, snap>>
    /\ UNCHANGED <<rollVars, trainVars>>

InitBuffer ==
    /\ \E c \in 1..MaxCap, bs \in 1..MaxBatch :
          /\ buf = NewBuffer(c, bs)
          /\ restored = NewBuffer(c, bs)
    /\ hist = <<>>
    /\ ret = NoReturn
    /\ disk = NoFile
    /\ snap = NoSnap
    /\ origin = NoSnap
    /\ IdleRollout
    /\ IdleTrain

Next ==
    \/ Add
    \/ Sample
    \/ CanSample
    \/ IsFullCall

Spec == InitBuffer /\ [][Next]_vars

NextPersist ==
    \/ Add
    \/ Save
    \/ Load

SpecPersist == InitBuffer /\ [][NextPersist]_vars

\* buf.add(...) before anything was saved.
AddBeforeSave ==
    /\ disk = NoFile
    /\ Add

\* restored = ReplayBuffer(...); restored.load(save_path), called while buf
\* is still as it was saved.
LoadCurrent ==
    /\ snap = buf
    /\ Load

\* buf.add(...) and restored.add(...) with the same arguments, after
\* restored has loaded.
AddBoth ==
    /\ origin # NoSnap
    /\ Len(hist) < MaxInserts
    /\ \E p \in NextPayloads :
          /\ buf' = AddTo(buf, Transition(p))
          /\ restored' = AddTo(restored, Transition(p))
          /\ hist' = Append(hist, Transition(p))
    /\ ret' = NoReturn
    /\ UNCHANGED <<disk, snap, origin>>
    /\ UNCHANGED <<rollVars, trainVars>>

NextContinue ==
    \/ AddBeforeSave
    \/ Save
    \/ LoadCurrent
    \/ AddBoth

SpecContinue == InitBuffer /\ [][NextContinue]_vars

----------------------------------------------------------------------------
(* RLAlgorithm._collect_samples: a generator. It runs from one yield to    *)
(* the next when the consumer calls next() on it; between two calls the    *)
(* consumer may update the policy's parameters.                            *)

Rewards == {1, 2}          \* the rewards env.step can return
Actions == {0, 1, 2}       \* the actions the policy or the space can return
InfoReturns == {9}         \* info['episode']['r'] of a Monitor wrapper
NoInfo == 0                \* info.get('episode') is None

B2I(b) == IF b THEN 1 ELSE 0

\* policy.step(np.array([observation])): the action and the value estimate
\* of the policy with parameters th for observation obs.
PolicyAction(th, obs) == (th + obs) % 3
PolicyValue(th, obs) == 1 + obs + 10 * th

\* np.clip(action, a_min=action_space.low, a_max=action_space.high),
\* applied only when the action space is a Box (lines 223-228)
ClippedAction(e, action) ==
    IF e.isBox THEN Max(e.low, Min(action, e.high)) ELSE action

\* Faulty variant: the test of line 193 without step > 0.
AtSegmentBoundaryFromZero(step, n_samples) == step % n_samples = 0

\* line 193
AtSegmentBoundary(step, n_samples) == step > 0 /\ step % n_samples = 0

\* Faulty variant: the bootstrap value is never zeroed.
NextVPredNotZeroed(vpred, episode_start) == vpred

\* Faulty variant: the flag is used without the complement.
NextVPredInverted(vpred, episode_start) == vpred * B2I(episode_start)

\* line 202
NextVPred(vpred, episode_start) == vpred * (1 - B2I(episode_start))

\* Faulty variant: the slot is taken after the step counter has advanced.
SlotIndexShifted(step, n_samples) == (step + 1) % n_samples

\* Faulty variant: the slots are filled from the end.
SlotIndexFromEnd(step, n_samples) == n_samples - 1 - (step % n_samples)

\* line 217
SlotIndex(step, n_samples) == step % n_samples

\* lines 179-185: the history arrays, each indexed 0..n_samples-1
NewArrays(n_samples, observation, action) ==
    [observations |-> [i \in 0..(n_samples - 1) |-> observation],
     true_rewards |-> Zeros(n_samples),
     rewards |-> Zeros(n_samples),
     vpreds |-> Zeros(n_samples),
     episode_starts |-> [i \in 0..(n_samples - 1) |-> FALSE],
     dones |-> [i \in 0..(n_samples - 1) |-> FALSE],
     actions |-> [i \in 0..(n_samples - 1) |-> action]]

\* The generator object before its first next(): no line has run.
NewGenerator(n_samples) ==
    [pc |-> "start", n_samples |-> n_samples, step |-> 0,
     action |-> 0, vpred |-> 0, observation |-> 0,
     cur_ep_ret |-> 0, current_it_len |-> 0, current_ep_len |-> 0,
     cur_ep_true_ret |-> 0,
     ep_true_rets |-> <<>>, ep_rets |-> <<>>, ep_lens |-> <<>>,
     episode_start |-> FALSE,
     queries |-> 0, action_query |-> 0, vpred_query |-> 0]

\* env.reset(): a new observation, and the environment leaves its
\* terminal state.
EnvReset(e) ==
    [e EXCEPT !.clock = e.clock + 1, !.terminal = FALSE,
              !.resets = e.resets + 1, !.ep_steps = 0]

\* env.step(action) ending in (done): a new observation.
EnvStep(e, done) ==
    [e EXCEPT !.clock = e.clock + 1, !.terminal = done,
              !.steps = e.steps + 1, !.ep_steps = e.ep_steps + 1,
              !.stepped_terminal = e.stepped_terminal \/ e.terminal]

\* Faulty variant: the flag is cleared after every step.
EpisodeStartCleared(done) == FALSE

\* line 235: episode_start = done
EpisodeStartAfter(done) == done

\* Faulty variant: the environment is not reset after a finished episode.
EnvAfterStepNoReset(e, done) == e

\* lines 241, 254: after a step that returned done the environment is
\* reset; after any other step it is left as it is.
EnvAfterStep(e, done) == IF done THEN EnvReset(e) ELSE e

\* What env.step can return. An environment with episode_len = 0 ends
\* its episodes when it likes; one with episode_len > 0 ends each episode
\* at that many steps and gives reward 1 a step, with no episode info.
EnvRewards(e) == IF e.episode_len = 0 THEN Rewards ELSE {1}
EnvDones(e) ==
    IF e.episode_len = 0 THEN BOOLEAN ELSE {e.ep_steps + 1 = e.episode_len}
EnvInfos(e) == IF e.episode_len = 0 THEN {NoInfo} \cup InfoReturns ELSE {NoInfo}

\* The number of environment steps the model follows a rollout for.
StepBudget(e) == IF e.episode_len = 0 THEN MaxSteps ELSE MaxScenarioSteps

\* The observation the environment returned last.
EnvObs(e) == e.clock

\* lines 165-186, run by the first next()
Start ==
    /\ gen.pc = "start"
    /\ \E a \in Actions :
          LET e == EnvReset(env)
          IN /\ env' = e
             /\ gen' = [gen EXCEPT !.pc = "loop", !.action = a,
                                   !.observation = EnvObs(e),
                                   !.episode_start = TRUE]
             /\ arrays' = NewArrays(gen.n_samples, EnvObs(e), a)
    /\ UNCHANGED <<seg, yields, theta, log>>
    /\ UNCHANGED <<bufVars, trainVars>>

\* lines 194-207: the dict yielded. Its seven arrays are the generator's
\* own array objects (references); seen is what they hold at the yield,
\* trained tells whether the consumer has used the segment to update
\* the policy, and all_ep_lens and all_ep_rets are history: the episode
\* summaries of all segments yielded so far, this one included.
SegmentDict ==
    [k |-> yields + 1,
     nextvpred |-> NextVPred(PolicyValue(theta, gen.observation),
                             gen.episode_start),
     ep_rets |-> gen.ep_rets,
     ep_lens |-> gen.ep_lens,
     ep_true_rets |-> gen.ep_true_rets,
     total_timestep |-> gen.current_it_len,
     seen |-> arrays,
     trained |-> FALSE,
     all_ep_lens |-> (IF yields = 0 THEN <<>> ELSE seg.all_ep_lens)
                         \o gen.ep_lens,
     all_ep_rets |-> (IF yields = 0 THEN <<>> ELSE seg.all_ep_rets)
                         \o gen.ep_rets]

\* What the consumer reads through the per-step entries of the dictionary
\* it was handed: the dictionary holds the generator's array objects, so it
\* shows whatever they hold now.
SegArrays == arrays

\* lines 189-207: the policy is queried; at a segment boundary the generator
\* yields and is suspended, otherwise it goes on to record the step.
Query ==
    /\ gen.pc = "loop"
    /\ LET g == [gen EXCEPT !.action = PolicyAction(theta, gen.observation),
                            !.vpred = PolicyValue(theta, gen.observation),
                            !.queries = gen.queries + 1,
                            !.action_query = gen.queries + 1,
                            !.vpred_query = gen.queries + 1]
       IN IF AtSegmentBoundary(gen.step, gen.n_samples)
          THEN /\ gen' = [g EXCEPT !.pc = "suspended"]
               /\ seg' = SegmentDict
               /\ yields' = yields + 1
          ELSE /\ gen' = [g EXCEPT !.pc = "record"]
               /\ UNCHANGED <<seg, yields>>
    /\ UNCHANGED <<arrays, env, theta, log>>
    /\ UNCHANGED <<bufVars, trainVars>>

\* The consumer updates the policy's parameters while the generator is
\* suspended (at most once per segment).
Train ==
    /\ gen.pc = "suspended"
    /\ ~seg.trained
    /\ theta' = theta + 1
    /\ seg' = [seg EXCEPT !.trained = TRUE]
    /\ UNCHANGED <<gen, arrays, yields, env, log>>
    /\ UNCHANGED <<bufVars, trainVars>>

\* Faulty variant: the policy is not queried again after the yield.
ResumeLocalsNoQuery(g, th) ==
    [g EXCEPT !.pc = "record",
              !.ep_rets = <<>>,
              !.ep_true_rets = <<>>,
              !.ep_lens = <<>>,
              !.current_it_len = 0]

\* Faulty variant: the episode summaries are not emptied after the yield.
ResumeLocalsKeepEpisodes(g, th) ==
    [g EXCEPT !.pc = "record",
              !.vpred = PolicyValue(th, g.observation),
              !.queries = g.queries + 1,
              !.vpred_query = g.queries + 1,
              !.current_it_len = 0]

\* Faulty variant: the episode accumulators start afresh in every segment.
ResumeLocalsResetAccumulators(g, th) ==
    [g EXCEPT !.pc = "record",
              !.vpred = PolicyValue(th, g.observation),
              !.queries = g.queries + 1,
              !.vpred_query = g.queries + 1,
              !.ep_rets = <<>>,
              !.ep_true_rets = <<>>,
              !.ep_lens = <<>>,
              !.cur_ep_ret = 0,
              !.cur_ep_true_ret = 0,
              !.current_ep_len = 0,
              !.current_it_len = 0]

\* lines 208-216: the locals after the generator is resumed. Line 208
\* queries the policy again and binds only vpred (the action returned is
\* discarded).
ResumeLocals(g, th) ==
    [g EXCEPT !.pc = "record",
              !.vpred = PolicyValue(th, g.observation),
              !.queries = g.queries + 1,
              !.vpred_query = g.queries + 1,
              !.ep_rets = <<>>,
              !.ep_true_rets = <<>>,
              !.ep_lens = <<>>,
              !.current_it_len = 0]

\* lines 208-216, run when the consumer calls next() again
Resume ==
    /\ gen.pc = "suspended"
    /\ gen' = ResumeLocals(gen, theta)
    /\ UNCHANGED <<arrays, seg, yields, env, theta, log>>
    /\ UNCHANGED <<bufVars, trainVars>>

\* lines 217-255: the step is recorded, the environment is stepped, and a
\* finished episode is summarised and the environment reset.
StepEnv ==
    /\ gen.pc = "record"
    /\ gen.step < StepBudget(env)
    /\ \E reward \in EnvRewards(env), done \in EnvDones(env),
          maybe_ep_info \in EnvInfos(env) :
          LET i == SlotIndex(gen.step, gen.n_samples)
              clipped_action == ClippedAction(env, gen.action)
              e1 == EnvStep(env, done)
              true_reward == reward
              ret1 == gen.cur_ep_ret + reward
              true1 == gen.cur_ep_true_ret + true_reward
              len1 == gen.current_ep_len + 1
              ret2 == IF maybe_ep_info # NoInfo THEN maybe_ep_info ELSE ret1
              true2 == IF maybe_ep_info # NoInfo THEN maybe_ep_info
                       ELSE true1
              e2 == EnvAfterStep(e1, done)
          IN /\ (~done => maybe_ep_info = NoInfo)
             /\ arrays' = [arrays EXCEPT
                   !.observations[i] = gen.observation,
                   !.vpreds[i] = gen.vpred,
                   !.actions[i] = gen.action,
                   !.episode_starts[i] = gen.episode_start,
                   !.rewards[i] = reward,
                   !.true_rewards[i] = true_reward,
                   !.dones[i] = done]
             /\ env' = e2
             /\ gen' = [gen EXCEPT
                   !.pc = "loop",
                   !.observation = EnvObs(e2),
                   !.episode_start = EpisodeStartAfter(done),
                   !.cur_ep_ret = IF done THEN 0 ELSE ret1,
                   !.cur_ep_true_ret = IF done THEN 0 ELSE true1,
                   !.current_it_len = gen.current_it_len + 1,
                   !.current_ep_len = IF done THEN 0 ELSE len1,
                   !.ep_rets = IF done THEN Append(gen.ep_rets, ret2)
                               ELSE gen.ep_rets,
                   !.ep_true_rets =
                       IF done THEN Append(gen.ep_true_rets, true2)
                       ELSE gen.ep_true_rets,
                   !.ep_lens = IF done THEN Append(gen.ep_lens, len1)
                               ELSE gen.ep_lens,
                   !.step = gen.step + 1]
             /\ log' = Append(log,
                   [observation |-> gen.observation,
                    action |-> gen.action,
                    applied |-> clipped_action,
                    vpred |-> gen.vpred,
                    episode_start |-> gen.episode_start,
                    reward |-> reward,
                    true_reward |-> true_reward,
                    done |-> done,
                    info |-> maybe_ep_info,
                    action_query |-> gen.action_query,
                    vpred_query |-> gen.vpred_query,
                    theta |-> theta])
    /\ UNCHANGED <<seg, yields, theta>>
    /\ UNCHANGED <<bufVars, trainVars>>

InitRollout ==
    /\ buf = NewBuffer(1, 1)
    /\ restored = NewBuffer(1, 1)
    /\ hist = <<>>
    /\ ret = NoReturn
    /\ disk = NoFile
    /\ snap = NoSnap
    /\ origin = NoSnap
    /\ \E n \in 1..MaxN : gen = NewGenerator(n)
    /\ arrays = [n |-> 0]
    /\ seg = [k |-> 0]
    /\ yields = 0
    /\ \E box \in BOOLEAN :
          env = [clock |-> 0, terminal |-> TRUE, resets |-> 0, steps |-> 0,
                 stepped_terminal |-> FALSE,
                 isBox |-> box, low |-> 0, high |-> 1,
                 episode_len |-> 0, ep_steps |-> 0]
    /\ theta = 0
    /\ log = <<>>
    /\ IdleTrain

NextRollout ==
    \/ Start
    \/ Query
    \/ Train
    \/ Resume
    \/ StepEnv

SpecRollout == InitRollout /\ [][NextRollout]_vars

\* _collect_samples(policy, 4) on an environment whose episodes last 2
\* steps with reward 1 a step.
InitScenario ==
    /\ buf = NewBuffer(1, 1)
    /\ restored = NewBuffer(1, 1)
    /\ hist = <<>>
    /\ ret = NoReturn
    /\ disk = NoFile
    /\ snap = NoSnap
    /\ origin = NoSnap
    /\ gen = NewGenerator(4)
    /\ arrays = [n |-> 0]
    /\ seg = [k |-> 0]
    /\ yields = 0
    /\ \E box \in BOOLEAN :
          env = [clock |-> 0, terminal |-> TRUE, resets |-> 0, steps |-> 0,
                 stepped_terminal |-> FALSE,
                 isBox |-> box, low |-> 0, high |-> 1,
                 episode_len |-> 2, ep_steps |-> 0]
    /\ theta = 0
    /\ log = <<>>
    /\ IdleTrain

SpecScenario == InitScenario /\ [][NextRollout]_vars

----------------------------------------------------------------------------
(* PPO._train: one policy update from one segment. The session runs it     *)
(* makes are the steps of the model. The policy's trainable parameters and *)
(* the reference policy's parameters are version numbers: policy_pi counts *)
(* the optimizer runs applied, old_pi is the version last assigned to it.  *)
(* The learning-rate multiplier is the exact fraction <<numerator,         *)
(* denominator>> of the float the code computes, and optim_epochs (a float *)
(* by the constructor's docstring) is a fraction of denominator 2.         *)

\* The schedule names: the two _train implements and one of those the
\* constructor's docstring lists without _train implementing it.
Schedules == {"constant", "linear", "middle_drop"}

NoLrMult == <<0, 0>>

\* Order and equality of fractions with positive denominators.
FracLeq(a, b) == a[1] * b[2] <= b[1] * a[2]
FracEq(a, b) == a[1] * b[2] = b[1] * a[2]

\* Faulty variant: every schedule name is let through.
ScheduleNotChecked(schedule) == TRUE

\* lines 249-255: the names with a branch of their own
ScheduleKnown(schedule) == schedule \in {"constant", "linear"}

\* Faulty variant: the multiplier is not clamped at 0.
LrMultLinearUnclamped(timesteps_so_far, total_timesteps) ==
    <<total_timesteps - timesteps_so_far, total_timesteps>>

\* lines 252-253: max(1.0 - float(timesteps_so_far) / total_timesteps, 0)
LrMultLinear(timesteps_so_far, total_timesteps) ==
    LET x == <<total_timesteps - timesteps_so_far, total_timesteps>>
    IN IF x[1] >= 0 THEN x ELSE <<0, 1>>

\* lines 249-253
CurLrMult(schedule, timesteps_so_far, total_timesteps) ==
    IF schedule = "constant" THEN <<1, 1>>
    ELSE IF schedule = "linear"
         THEN LrMultLinear(timesteps_so_far, total_timesteps)
         ELSE NoLrMult

\* Faulty variant: the reference policy keeps its parameters.
AssignOldKept(p) == p

\* line 271: sess.run(assign_old_eq_new), built at lines 186-192
AssignOldEqNew(p) == [p EXCEPT !.old_pi = p.policy_pi]

\* The values optim_epochs takes: whole numbers and halves.
EpochCounts == {<<h, 2>> : h \in 0..(2 * MaxEpochs)}

\* Faulty variant: one epoch too many.
EpochsToRunOneMore(optim_epochs) == (optim_epochs[1] \div optim_epochs[2]) + 1

\* line 277: range(int(optim_epochs)): int truncates the fraction
EpochsToRun(optim_epochs) == optim_epochs[1] \div optim_epochs[2]

\* The losses of one minibatch: they depend on the parameters of both
\* policies and on the batch.
Losses(policy_pi, old_pi, batch) == 100 * policy_pi + 10 * old_pi + batch

RECURSIVE SumSeq(_)
SumSeq(q) == IF q = <<>> THEN 0 ELSE q[1] + SumSeq(Tail(q))

\* line 316: the mean over the list of minibatch losses, as a fraction
MeanLosses(losses) == <<SumSeq(losses), Len(losses)>>

\* The PPO object after setup_model, before _train is called.
NewPPO(schedule, optim_epochs, timesteps_so_far) ==
    [pc |-> "ready",
     schedule |-> schedule,
     optim_epochs |-> optim_epochs,
     timesteps_so_far |-> timesteps_so_far,
     policy_pi |-> 1,
     old_pi |-> 0,
     total_timesteps |-> 0,
     n_batches |-> 0,
     cur_lrmult |-> NoLrMult,
     k |-> 0,
     i |-> 0,
     losses |-> <<>>,
     result |-> NoReturn]

\* A session run made with the object in state p.
SessRun(p, kind) ==
    [kind |-> kind, lrmult |-> p.cur_lrmult, k |-> p.k, i |-> p.i,
     policy_pi |-> p.policy_pi, old_pi |-> p.old_pi,
     losses |-> Losses(p.policy_pi, p.old_pi, p.i)]

\* lines 244-255: _train(seg, writer, total_timesteps) is called and picks
\* the multiplier, or raises for a schedule it does not know. n_batches is
\* the number of minibatches a pass over seg's dataset has.
TrainCall ==
    /\ ppo.pc = "ready"
    /\ \E total_timesteps \in 1..MaxTotal, n_batches \in 1..MaxMinibatches :
          LET p == [ppo EXCEPT !.total_timesteps = total_timesteps,
                               !.n_batches = n_batches]
          IN IF ScheduleKnown(p.schedule)
             THEN ppo' = [p EXCEPT !.cur_lrmult =
                                      CurLrMult(p.schedule, p.timesteps_so_far,
                                                total_timesteps),
                                   !.pc = "sync"]
             ELSE ppo' = [p EXCEPT !.pc = "raised",
                                   !.result = [error |-> "NotImplementedError"]]
    /\ UNCHANGED runs
    /\ UNCHANGED <<bufVars, rollVars>>

\* lines 257-277: the dataset is built and the reference policy is assigned
\* the current parameters; the epoch loop is entered.
SyncOld ==
    /\ ppo.pc = "sync"
    /\ runs' = Append(runs, SessRun(ppo, "sync"))
    /\ ppo' = [AssignOldEqNew(ppo) EXCEPT
                  !.k = 0, !.i = 0, !.losses = <<>>,
                  !.pc = IF EpochsToRun(ppo.optim_epochs) > 0
                         THEN "update" ELSE "eval"]
    /\ UNCHANGED <<bufVars, rollVars>>

\* lines 280-299: one minibatch of an epoch: the optimizer and the losses
\* are run together; after the last minibatch of the last epoch the loop
\* is left (line 302 empties the list of losses).
UpdateMinibatch ==
    /\ ppo.pc = "update"
    /\ LET r == SessRun(ppo, "update")
           p == [ppo EXCEPT !.policy_pi = ppo.policy_pi + 1,
                            !.losses = Append(ppo.losses, r.losses)]
       IN /\ runs' = Append(runs, r)
          /\ ppo' = IF p.i + 1 < p.n_batches
                    THEN [p EXCEPT !.i = p.i + 1]
                    ELSE IF p.k + 1 < EpochsToRun(p.optim_epochs)
                         THEN [p EXCEPT !.k = p.k + 1, !.i = 0,
                                        !.losses = <<>>]
                         ELSE [p EXCEPT !.i = 0, !.losses = <<>>,
                                        !.pc = "eval"]
    /\ UNCHANGED <<bufVars, rollVars>>

\* lines 303-315: one minibatch of the evaluation pass: only the losses are
\* run.
EvalMinibatch ==
    /\ ppo.pc = "eval"
    /\ LET r == SessRun(ppo, "eval")
           p == [ppo EXCEPT !.losses = Append(ppo.losses, r.losses)]
       IN /\ runs' = Append(runs, r)
          /\ ppo' = IF p.i + 1 < p.n_batches
                    THEN [p EXCEPT !.i = p.i + 1]
                    ELSE [p EXCEPT !.pc = "moments"]
    /\ UNCHANGED <<bufVars, rollVars>>

\* lines 316-318
Return ==
    /\ ppo.pc = "moments"
    /\ ppo' = [ppo EXCEPT !.result = [mean_losses |-> MeanLosses(ppo.losses)],
                          !.pc = "returned"]
    /\ UNCHANGED runs
    /\ UNCHANGED <<bufVars, rollVars>>

InitTrain ==
    /\ buf = NewBuffer(1, 1)
    /\ restored = NewBuffer(1, 1)
    /\ hist = <<>>
    /\ ret = NoReturn
    /\ disk = NoFile
    /\ snap = NoSnap
    /\ origin = NoSnap
    /\ IdleRollout
    /\ \E schedule \in Schedules, optim_epochs \in EpochCounts,
          timesteps_so_far \in 0..MaxTimesteps :
          ppo = NewPPO(schedule, optim_epochs, timesteps_so_far)
    /\ runs = <<>>

NextTrain ==
    \/ TrainCall
    \/ SyncOld
    \/ UpdateMinibatch
    \/ EvalMinibatch
    \/ Return

SpecTrain == InitTrain /\ [][NextTrain]_vars

----------------------------------------------------------------------------
(* Properties of the buffer. *)

\* The transitions among the s most recently inserted.
Recent(s) == {hist[k] : k \in (Len(hist) - s + 1)..Len(hist)}

\* Position i of a sampled batch as one transition.
Row(batch, i) ==
    [obs_t |-> batch.obs_t[i], action |-> batch.action[i],
     reward |-> batch.reward[i], obs_tp1 |-> batch.obs_tp1[i],
     done |-> batch.done[i]]

Distinct(h) == \A i, j \in DOMAIN h : i # j => h[i] # h[j]

Returned == ret.op = "sample" /\ ret.raised = "none"

\* C1: after N calls of add on a fresh buffer of capacity C,
\* len(buffer) = min(N, C); so 0 <= size <= capacity.
C1_LenIsMinOfInsertsAndCapacity ==
    /\ BufLen(buf) = Min(Len(hist), buf.maxsize)
    /\ 0 <= buf.size /\ buf.size <= buf.maxsize

\* More inserts than the capacity have been made.
C1_Witness == Len(hist) > buf.maxsize /\ BufLen(buf) = buf.maxsize

\* C2: with size = s > 0, sample returns a batch; each index drawn lies in
\* [0, s) and in a written slot, and position i of the five returned arrays
\* is the content of that one slot and one of the s most recent transitions.
C2_SampleReturnsStoredTransitions ==
    ret.op = "sample" /\ buf.size > 0 =>
        /\ ret.raised = "none"
        /\ Len(ret.idxes) = buf.batch_size
        /\ \A i \in DOMAIN ret.idxes :
              /\ ret.idxes[i] \in 0..(buf.size - 1)
              /\ ret.idxes[i] < Len(hist)
              /\ Row(ret.batch, i) = Slot(buf, ret.idxes[i])
              /\ Row(ret.batch, i) \in Recent(buf.size)

\* A batch of two different slots drawn from a partially filled buffer.
C2_Witness ==
    /\ Returned
    /\ 0 < buf.size /\ buf.size < buf.maxsize
    /\ Len(ret.idxes) = 2 /\ ret.idxes[1] # ret.idxes[2]

\* C3: after capacity + 1 inserts slot 0 holds the newest transition, the
\* size is the capacity, and with distinct payloads sample cannot return the
\* first transition; for capacity 3 and T0..T3: size 3, _next_idx 1,
\* _current_idx 0, and sample returns only T1, T2, T3.
C3_OverflowOverwritesOldest ==
    /\ Len(hist) = buf.maxsize + 1 =>
          /\ buf.size = buf.maxsize
          /\ Slot(buf, 0) = hist[Len(hist)]
          /\ Distinct(hist) /\ Returned =>
                \A i \in DOMAIN ret.idxes : Row(ret.batch, i) # hist[1]
    /\ (buf.maxsize = 3 /\ hist = [k \in 1..4 |-> Transition(k - 1)]) =>
          /\ buf.size = 3 /\ buf.next_idx = 1 /\ buf.current_idx = 0
          /\ Returned =>
                \A i \in DOMAIN ret.idxes :
                    Row(ret.batch, i) \in
                        {Transition(1), Transition(2), Transition(3)}

\* The scenario of capacity 3 and T0..T3, followed by a sample that
\* returns the newest transition from slot 0.
C3_Witness ==
    /\ buf.maxsize = 3 /\ hist = [k \in 1..4 |-> Transition(k - 1)]
    /\ Returned /\ ret.idxes[1] = 0
    /\ Row(ret.batch, 1) = Transition(3)

\* C4: after at least one insert, slot _current_idx holds the five fields of
\* the most recent transition, and _current_idx = (_next_idx - 1) mod capacity.
C4_LastWrittenHoldsNewest ==
    Len(hist) >= 1 =>
        /\ Slot(buf, buf.current_idx) = hist[Len(hist)]
        /\ buf.current_idx = (buf.next_idx - 1) % buf.maxsize

\* The newest transition sits at a slot other than 0, after wrapping around.
C4_Witness ==
    /\ Len(hist) > buf.maxsize /\ buf.current_idx # 0
    /\ hist[Len(hist)] # hist[Len(hist) - 1]

\* C5: after N inserts _next_idx = N mod capacity, and it stays in
\* 0..capacity-1, whatever the size.
C5_CursorIsInsertsModCapacity ==
    /\ buf.next_idx = Len(hist) % buf.maxsize
    /\ 0 <= buf.next_idx /\ buf.next_idx <= buf.maxsize - 1

\* The cursor has advanced in a full buffer.
C5_Witness ==
    /\ buf.size = buf.maxsize /\ Len(hist) > buf.maxsize
    /\ buf.next_idx # 0

\* C6: a fresh buffer of the same capacity that loads what save wrote has
\* the capacity, size, both indices, batch size and five arrays that the
\* saved buffer had, hence the same retrievable transitions.
C6_SaveLoadRoundTrip ==
    origin # NoSnap =>
        /\ restored = origin
        /\ {Slot(restored, i) : i \in 0..(restored.size - 1)}
              = {Slot(origin, i) : i \in 0..(origin.size - 1)}

\* A wrapped-around buffer was saved and loaded.
C6_Witness ==
    /\ origin # NoSnap
    /\ origin.size = origin.maxsize
    /\ origin.next_idx # 0
    /\ origin.current_idx # origin.next_idx
    /\ restored.next_idx = origin.next_idx

\* C7: sample on a buffer of size 0 raises an error instead of returning a
\* batch, for each batch size, and leaves the buffer as it was.
C7_SampleOnEmptyRaises ==
    [][(buf.size = 0 /\ ret'.op = "sample") =>
          (ret'.raised = "ValueError" /\ ret'.idxes = <<>> /\ buf' = buf)]_vars

\* sample was called on an empty buffer with the largest batch size.
C7_Witness ==
    /\ ret.op = "sample" /\ buf.size = 0 /\ buf.batch_size = MaxBatch
    /\ ret.raised = "ValueError"

\* C8 as stated: can_sample is true iff size >= n for whichever batch size n
\* the caller has in mind at the call.
C8_CanSampleForCallerBatchSize ==
    ret.op = "can_sample" =>
        \A n \in 1..MaxBatch : ret.value <=> (buf.size >= n)

\* C8 amended: can_sample takes no argument and is true iff size >= the
\* batch size given to the constructor.
C8_CanSampleForConfiguredBatchSize ==
    ret.op = "can_sample" => (ret.value <=> (buf.size >= buf.batch_size))

\* can_sample answered true with exactly batch_size transitions stored.
C8_Witness ==
    /\ ret.op = "can_sample" /\ ret.value
    /\ buf.size = buf.batch_size /\ buf.batch_size > 1

\* C9 as stated: the configuration record is
\* (capacity, size, write_cursor, last_written, batch_size).
C9_ConfigCursorThird ==
    disk # NoFile =>
        disk.config = <<snap.maxsize, snap.size, snap.next_idx,
                        snap.current_idx, snap.batch_size>>

\* C9 amended: the configuration record is
\* (capacity, size, last_written, write_cursor, batch_size).
C9_ConfigLastWrittenThird ==
    disk # NoFile =>
        /\ Len(disk.config) = 5
        /\ disk.config = <<snap.maxsize, snap.size, snap.current_idx,
                           snap.next_idx, snap.batch_size>>

\* A buffer whose two indices differ was saved.
C9_Witness ==
    /\ disk # NoFile
    /\ snap.current_idx # snap.next_idx
    /\ disk.config[3] = snap.current_idx

----------------------------------------------------------------------------
(* Properties of the rollout generator. *)

\* C10: the generator is suspended only at segment boundaries: at its k-th
\* yield exactly k * n_samples environment steps have been taken and the
\* segment reports total_timestep = n_samples; no boundary is passed
\* without a yield, whatever the episode lengths.
C10_YieldsOnlyAtSegmentBoundaries ==
    /\ gen.pc = "suspended" =>
          /\ yields >= 1
          /\ seg.k = yields
          /\ env.steps = yields * gen.n_samples
          /\ Len(log) = env.steps
          /\ seg.total_timestep = gen.n_samples
    /\ gen.pc \in {"start", "loop", "record", "suspended"} =>
          /\ yields * gen.n_samples <= env.steps
          /\ env.steps <= (yields + 1) * gen.n_samples
          /\ gen.pc = "record" => env.steps < (yields + 1) * gen.n_samples

\* The second yield, of a segment in which an episode ended before the
\* boundary and whose last step did not end one.
C10_Witness ==
    /\ gen.pc = "suspended" /\ yields = 2 /\ gen.n_samples = 2
    /\ log[3].done /\ ~log[4].done /\ ~log[2].done

\* The parameters the policy had at the last yield: the consumer changes
\* them at most once while the generator is suspended.
ThetaAtYield == IF seg.trained THEN theta - 1 ELSE theta

\* C11: the yielded nextvpred is value_estimate * (1 - episode_start), with
\* value_estimate the policy's value of the observation the next segment
\* starts from: 0 when the segment's last step ended an episode, the value
\* estimate otherwise.
C11_NextValueZeroedAtEpisodeEnd ==
    gen.pc = "suspended" =>
        LET last == log[Len(log)]
            value_estimate == PolicyValue(ThetaAtYield, EnvObs(env))
        IN /\ gen.observation = EnvObs(env)
           /\ gen.episode_start = last.done
           /\ seg.nextvpred = value_estimate * (1 - B2I(last.done))
           /\ last.done => seg.nextvpred = 0
           /\ ~last.done => seg.nextvpred = value_estimate

\* A segment whose last step ended an episode was yielded with a zero
\* nextvpred although the policy's value estimate is not zero.
C11_Witness ==
    /\ gen.pc = "suspended" /\ log[Len(log)].done
    /\ seg.nextvpred = 0 /\ gen.vpred # 0

\* The logged steps (numbered from 1) that are the first step of a segment
\* other than the first one.
FirstStepsAfterYield ==
    {t \in DOMAIN log : t > 1 /\ (t - 1) % gen.n_samples = 0}

\* The number of the policy query made at line 208 before logged step t, a
\* first step after a yield: one query per step so far, one per earlier
\* resumption, and this one. The query of line 189 before that yield is the
\* one before it.
PostResumeQuery(t) == (t - 1) + ((t - 1) \div gen.n_samples) + 1

\* C12 as stated: at the first step of a segment after a yield, both the
\* action applied to the environment and the value recorded come from the
\* query made after the resumption.
C12_ActionAndValueFromPostResumeQuery ==
    \A t \in FirstStepsAfterYield :
        /\ log[t].vpred_query = PostResumeQuery(t)
        /\ log[t].action_query = PostResumeQuery(t)

\* C12 amended: after the resumption the policy is queried again, and the
\* value recorded for the first step of the new segment comes from that
\* query (the parameters as the consumer left them); the action recorded
\* and applied (clipped for a Box space) at that step is the one of the
\* query made before the yield.
C12_ValueFromPostResumeQueryActionFromPreYield ==
    \A t \in FirstStepsAfterYield :
        /\ log[t].vpred_query = PostResumeQuery(t)
        /\ log[t].vpred = PolicyValue(log[t].theta, log[t].observation)
        /\ log[t].action_query = PostResumeQuery(t) - 1
        /\ log[t].action = PolicyAction(log[t - 1].theta, log[t].observation)
        /\ log[t].applied = ClippedAction(env, log[t].action)

\* The consumer changed the parameters during the suspension, and the first
\* step of the next segment used an action the new parameters do not give.
C12_Witness ==
    \E t \in FirstStepsAfterYield :
        /\ log[t].theta # log[t - 1].theta
        /\ log[t].action # PolicyAction(log[t].theta, log[t].observation)
        /\ log[t].vpred = PolicyValue(log[t].theta, log[t].observation)

\* The logged steps (numbered from 1) of the k-th yielded segment.
SegFirst(k) == (k - 1) * gen.n_samples + 1
SegLast(k) == k * gen.n_samples

\* The steps among lo..hi at which env.step returned done.
DoneSteps(lo, hi) == {t \in lo..hi : t \in DOMAIN log /\ log[t].done}

\* The i-th of them, in time order.
NthDoneStep(lo, hi, i) ==
    CHOOSE t \in DoneSteps(lo, hi) :
        Cardinality({u \in DoneSteps(lo, hi) : u <= t}) = i

\* The first step of the episode that step t belongs to.
EpisodeFirst(t) ==
    LET before == DoneSteps(1, t - 1)
    IN IF before = {} THEN 1
       ELSE (CHOOSE u \in before : \A v \in before : v <= u) + 1

RECURSIVE SumRewards(_, _)
SumRewards(lo, hi) ==
    IF lo > hi THEN 0 ELSE log[lo].reward + SumRewards(lo + 1, hi)

\* The return reported for the episode ending at step t: the sum of its
\* rewards, or the return the info of its last step carries.
EpisodeReturn(t) ==
    IF log[t].info # NoInfo THEN log[t].info
    ELSE SumRewards(EpisodeFirst(t), t)

EpisodeLength(t) == t - EpisodeFirst(t) + 1

\* C13: the yielded ep_rets, ep_true_rets and ep_lens hold one entry, in
\* completion order, per episode whose done step lies within the segment's
\* n_samples steps, none of an earlier segment, and have equal lengths.
C13_EpisodeSummariesOfThisSegmentOnly ==
    yields >= 1 =>
        LET lo == SegFirst(seg.k)
            hi == SegLast(seg.k)
            m == Cardinality(DoneSteps(lo, hi))
        IN /\ Len(seg.ep_rets) = m
           /\ Len(seg.ep_true_rets) = m
           /\ Len(seg.ep_lens) = m
           /\ \A i \in 1..m :
                 LET t == NthDoneStep(lo, hi, i)
                 IN /\ seg.ep_lens[i] = EpisodeLength(t)
                    /\ seg.ep_rets[i] = EpisodeReturn(t)
                    /\ seg.ep_true_rets[i] = EpisodeReturn(t)

\* The second segment was yielded with the one episode that ended in it,
\* an episode begun in the first segment, where another episode had ended.
C13_Witness ==
    /\ yields = 2 /\ gen.n_samples = 2 /\ Len(log) >= 4
    /\ log[1].done /\ ~log[2].done /\ log[3].done /\ ~log[4].done
    /\ seg.ep_lens = <<2>>

\* C14 as stated: with n_samples = 4 and episodes of 2 steps with reward 1,
\* the first yielded segment covers steps 0-3, holds exactly one completed
\* episode (return 2, length 2), and its nextvpred is zeroed as step 4
\* starts an episode.
C14_FirstSegmentHoldsOneEpisode ==
    seg.k = 1 =>
        /\ seg.total_timestep = 4
        /\ \A i \in 0..3 : seg.seen.observations[i] = log[i + 1].observation
        /\ seg.ep_rets = <<2>>
        /\ seg.ep_lens = <<2>>
        /\ seg.nextvpred = 0

\* C14 amended: the first yielded segment covers steps 0-3 and holds the two
\* episodes completed in them (at steps 1 and 3), each of return 2 and
\* length 2; step 4 starts an episode, so its nextvpred is zeroed.
C14_FirstSegmentHoldsTwoEpisodes ==
    seg.k = 1 =>
        /\ seg.total_timestep = 4
        /\ \A i \in 0..3 :
              /\ seg.seen.observations[i] = log[i + 1].observation
              /\ seg.seen.rewards[i] = 1
              /\ seg.seen.dones[i] = (i \in {1, 3})
        /\ seg.ep_rets = <<2, 2>>
        /\ seg.ep_true_rets = <<2, 2>>
        /\ seg.ep_lens = <<2, 2>>
        /\ seg.nextvpred = 0
        /\ gen.pc = "suspended" =>
              gen.episode_start /\ PolicyValue(theta, gen.observation) # 0

\* The generator is suspended at its first yield.
C14_Witness ==
    /\ gen.pc = "suspended" /\ seg.k = 1 /\ gen.n_samples = 4
    /\ env.episode_len = 2 /\ Len(log) = 4
    /\ Len(seg.ep_rets) = 2

\* The record of global step number t (from 0) in the history of steps.
StepRecord(t) == log[t + 1]

\* C15: in the k-th yielded segment (k from 0) slot i of every per-step
\* array holds the data of global step k * n_samples + i: the segment is the
\* contiguous, ordered window of the last n_samples steps.
C15_SlotHoldsGlobalStep ==
    yields >= 1 =>
        LET n == gen.n_samples
            k == seg.k - 1
        IN /\ seg.k = yields
           /\ Len(log) >= (k + 1) * n
           /\ \A i \in 0..(n - 1) :
                LET r == StepRecord(k * n + i)
                IN /\ seg.seen.observations[i] = r.observation
                   /\ seg.seen.actions[i] = r.action
                   /\ seg.seen.vpreds[i] = r.vpred
                   /\ seg.seen.episode_starts[i] = r.episode_start
                   /\ seg.seen.rewards[i] = r.reward
                   /\ seg.seen.true_rewards[i] = r.true_reward
                   /\ seg.seen.dones[i] = r.done

\* The second segment of a generator with n_samples = 2 has been yielded,
\* and its two slots hold different observations.
C15_Witness ==
    /\ gen.pc = "suspended" /\ yields = 2 /\ gen.n_samples = 2
    /\ seg.seen.observations[0] # seg.seen.observations[1]
    /\ seg.seen.observations[1] = StepRecord(3).observation

\* C16 as stated: the per-step contents of a yielded segment, as the
\* consumer holds them, are not changed by the generator collecting later
\* steps.
C16_SegmentUnchangedByLaterSteps ==
    yields >= 1 => SegArrays = seg.seen

\* The number of steps recorded since the last yield.
StepsSinceYield == Len(log) - seg.k * gen.n_samples

\* C16 amended: a yielded segment keeps its contents only until the
\* generator is resumed. The dictionary holds the generator's own arrays,
\* and every later step overwrites its slot of them in place: the slots
\* written since the yield hold the new steps, the others still hold the
\* yielded segment.
C16_SegmentOverwrittenInPlace ==
    yields >= 1 =>
        LET n == gen.n_samples
            w == StepsSinceYield
        IN /\ w \in 0..n
           /\ gen.pc = "suspended" => w = 0 /\ SegArrays = seg.seen
           /\ \A i \in 0..(n - 1) :
                IF i < w
                THEN LET r == StepRecord(seg.k * n + i)
                     IN /\ SegArrays.observations[i] = r.observation
                        /\ SegArrays.actions[i] = r.action
                        /\ SegArrays.vpreds[i] = r.vpred
                        /\ SegArrays.episode_starts[i] = r.episode_start
                        /\ SegArrays.rewards[i] = r.reward
                        /\ SegArrays.true_rewards[i] = r.true_reward
                        /\ SegArrays.dones[i] = r.done
                ELSE /\ SegArrays.observations[i] = seg.seen.observations[i]
                     /\ SegArrays.actions[i] = seg.seen.actions[i]
                     /\ SegArrays.vpreds[i] = seg.seen.vpreds[i]
                     /\ SegArrays.episode_starts[i] = seg.seen.episode_starts[i]
                     /\ SegArrays.rewards[i] = seg.seen.rewards[i]
                     /\ SegArrays.true_rewards[i] = seg.seen.true_rewards[i]
                     /\ SegArrays.dones[i] = seg.seen.dones[i]

\* After a yield the generator has recorded one more step of two, and the
\* consumer's dictionary shows it in slot 0 while slot 1 is as yielded.
C16_Witness ==
    /\ yields >= 1 /\ gen.n_samples = 2 /\ StepsSinceYield = 1
    /\ SegArrays.observations[0] # seg.seen.observations[0]
    /\ SegArrays.observations[1] = seg.seen.observations[1]

----------------------------------------------------------------------------
(* Properties of the policy update. *)

\* The positions in runs of the session runs of one kind.
RunsOf(kind) == {j \in DOMAIN runs : runs[j].kind = kind}

\* _train has picked its multiplier.
MultiplierChosen == ppo.pc \in {"sync", "update", "eval", "moments", "returned"}

\* C17: the multiplier is 1 for 'constant' and max(1 - steps_so_far /
\* total_timesteps, 0) for 'linear'; it lies in [0, 1], does not increase
\* with steps_so_far, is 0 for 'linear' once steps_so_far >= total_timesteps,
\* and every minibatch update and every evaluation run of the call is fed
\* this one value.
C17_LrMultiplierOfSchedule ==
    MultiplierChosen =>
        LET s == ppo.timesteps_so_far
            t == ppo.total_timesteps
            m == ppo.cur_lrmult
        IN /\ m[2] > 0
           /\ ppo.schedule = "constant" => FracEq(m, <<1, 1>>)
           /\ ppo.schedule = "linear" =>
                 IF s >= t THEN m[1] = 0 ELSE FracEq(m, <<t - s, t>>)
           /\ FracLeq(<<0, 1>>, m) /\ FracLeq(m, <<1, 1>>)
           /\ \A later \in s..(MaxTimesteps + 1) :
                 FracLeq(CurLrMult(ppo.schedule, later, t), m)
           /\ \A j \in RunsOf("update") \cup RunsOf("eval") :
                 runs[j].lrmult = m

\* A call with the 'linear' schedule part of the way through training has
\* returned after updates and evaluation runs with a multiplier strictly
\* between 0 and 1.
C17_Witness ==
    /\ ppo.pc = "returned" /\ ppo.schedule = "linear"
    /\ 0 < ppo.timesteps_so_far /\ ppo.timesteps_so_far < ppo.total_timesteps
    /\ RunsOf("update") # {} /\ RunsOf("eval") # {}
    /\ ppo.cur_lrmult[1] > 0 /\ ppo.cur_lrmult[1] < ppo.cur_lrmult[2]

\* The PPO object as it was when _train was called.
ObjectAtCall == NewPPO(ppo.schedule, ppo.optim_epochs, ppo.timesteps_so_far)

ParamsAtCall == ObjectAtCall.policy_pi

\* C19: in a call the reference policy is synchronized exactly once, before
\* the first minibatch update, and not again: in every update and
\* evaluation run, and to the end of the call, it holds the parameters the
\* policy had before the call's updates.
C19_ReferenceSyncedOnceBeforeUpdates ==
    /\ Cardinality(RunsOf("sync")) <= 1
    /\ \A j \in RunsOf("sync") : j = 1 /\ runs[j].policy_pi = ParamsAtCall
    /\ \A j \in RunsOf("update") \cup RunsOf("eval") :
          /\ RunsOf("sync") = {1}
          /\ runs[j].old_pi = ParamsAtCall
    /\ ppo.pc \in {"update", "eval", "moments", "returned"} =>
          /\ RunsOf("sync") = {1}
          /\ ppo.old_pi = ParamsAtCall

\* A call has returned after several updates: the reference policy still
\* holds the parameters from before them.
C19_Witness ==
    /\ ppo.pc = "returned"
    /\ Cardinality(RunsOf("update")) >= 2
    /\ ppo.old_pi = ParamsAtCall
    /\ ppo.policy_pi > ppo.old_pi + 1

\* The losses of the evaluation runs, in order.
EvalLosses ==
    LET IsEval(r) == r.kind = "eval"
        q == SelectSeq(runs, IsEval)
    IN [j \in DOMAIN q |-> q[j].losses]

\* The number of update passes of the call: optim_epochs, with a fraction
\* of an epoch dropped.
Passes == EpochsToRun(ppo.optim_epochs)

\* C20: a call runs optim_epochs passes of updating minibatch runs (one run
\* per minibatch of the pass; int(optim_epochs) passes if optim_epochs is
\* not whole) and then one evaluation pass that updates no parameter; every
\* update precedes every evaluation run, and the mean losses returned are
\* those of the evaluation pass alone, also when optim_epochs is 0.
C20_EpochsThenOneEvaluationPass ==
    /\ \A a \in RunsOf("update"), b \in RunsOf("eval") : a < b
    /\ \A b \in RunsOf("eval") :
          b < Len(runs) => runs[b + 1].policy_pi = runs[b].policy_pi
    /\ ppo.pc = "returned" =>
          /\ Passes * ppo.optim_epochs[2] <= ppo.optim_epochs[1]
          /\ (Passes + 1) * ppo.optim_epochs[2] > ppo.optim_epochs[1]
          /\ ppo.optim_epochs[1] % ppo.optim_epochs[2] = 0 =>
                Passes * ppo.optim_epochs[2] = ppo.optim_epochs[1]
          /\ \A k \in 0..(Passes - 1), i \in 0..(ppo.n_batches - 1) :
                Cardinality({j \in RunsOf("update") :
                                runs[j].k = k /\ runs[j].i = i}) = 1
          /\ Cardinality(RunsOf("update")) = Passes * ppo.n_batches
          /\ \A i \in 0..(ppo.n_batches - 1) :
                Cardinality({j \in RunsOf("eval") : runs[j].i = i}) = 1
          /\ Cardinality(RunsOf("eval")) = ppo.n_batches
          /\ ppo.policy_pi = ParamsAtCall + Cardinality(RunsOf("update"))
          /\ \A b \in RunsOf("eval") : runs[b].policy_pi = ppo.policy_pi
          /\ ppo.result = [mean_losses |-> MeanLosses(EvalLosses)]

\* A call with two epochs of two minibatches has returned.
C20_Witness ==
    /\ ppo.pc = "returned"
    /\ ppo.optim_epochs = <<4, 2>> /\ ppo.n_batches = 2
    /\ Cardinality(RunsOf("update")) = 4
    /\ Cardinality(RunsOf("eval")) = 2

----------------------------------------------------------------------------
(* Further properties of the rollout generator. *)

\* A step of the model in which the generator steps the environment.
EnvStepTaken == Len(log') = Len(log) + 1

\* C21: a step of the environment that returns done is followed, before
\* the next step or yield, by one more entry in each of the three episode
\* lists, by the three accumulators at zero and by exactly one env.reset;
\* the environment is never stepped from a terminal state, and env.reset is
\* not called after a step that did not return done.
C21_DoneStepSummarisedAndResetOnce ==
    [][/\ EnvStepTaken =>
            LET done == log'[Len(log')].done
            IN /\ gen.pc = "record" /\ gen'.pc = "loop"
               /\ ~env.terminal
               /\ env'.steps = env.steps + 1
               /\ ~env'.terminal
               /\ ~env'.stepped_terminal
               /\ done =>
                     /\ env'.resets = env.resets + 1
                     /\ gen'.ep_lens =
                           Append(gen.ep_lens, gen.current_ep_len + 1)
                     /\ Len(gen'.ep_rets) = Len(gen.ep_rets) + 1
                     /\ Len(gen'.ep_true_rets) = Len(gen.ep_true_rets) + 1
                     /\ gen'.cur_ep_ret = 0
                     /\ gen'.cur_ep_true_ret = 0
                     /\ gen'.current_ep_len = 0
               /\ ~done =>
                     /\ env'.resets = env.resets
                     /\ env'.clock = env.clock + 1
                     /\ gen'.ep_lens = gen.ep_lens
                     /\ gen'.ep_rets = gen.ep_rets
                     /\ gen'.ep_true_rets = gen.ep_true_rets
                     /\ gen'.current_ep_len = gen.current_ep_len + 1
       /\ (~EnvStepTaken /\ gen.pc # "start") => env' = env
      ]_vars

\* The first step returned done and was followed by a reset; the second
\* step did not and was followed by none.
C21_Witness ==
    /\ Len(log) >= 2 /\ log[1].done /\ ~log[2].done
    /\ env.steps = 2 /\ env.resets = 2
    /\ ~env.terminal /\ ~env.stepped_terminal

\* C22: the episode accumulators are carried over segment boundaries: every
\* finished episode is reported once, in the segment of its done step, with
\* its full length and return, also when it began in an earlier segment;
\* and at every yield the lengths reported so far plus the length of the
\* episode in progress add up to the number of environment steps taken.
C22_EpisodesReportedOnceInFull ==
    yields >= 1 =>
        LET hi == SegLast(seg.k)
            m == Cardinality(DoneSteps(1, hi))
        IN /\ Len(seg.all_ep_lens) = m
           /\ Len(seg.all_ep_rets) = m
           /\ \A i \in 1..m :
                 LET t == NthDoneStep(1, hi, i)
                 IN /\ seg.all_ep_lens[i] = EpisodeLength(t)
                    /\ seg.all_ep_rets[i] = EpisodeReturn(t)
           /\ gen.pc = "suspended" =>
                 /\ Len(log) = hi
                 /\ env.steps = hi
                 /\ SumSeq(seg.all_ep_lens) + gen.current_ep_len = env.steps

\* An episode of three steps began in the first segment of two steps and
\* ended in the second, which reports it with length 3 and the sum of its
\* three rewards.
C22_Witness ==
    /\ gen.pc = "suspended" /\ yields = 2 /\ gen.n_samples = 2
    /\ ~log[1].done /\ ~log[2].done /\ log[3].done /\ ~log[4].done
    /\ log[3].info = NoInfo
    /\ seg.ep_lens = <<3>>
    /\ seg.ep_rets = <<log[1].reward + log[2].reward + log[3].reward>>
    /\ gen.current_ep_len = 1

\* C23: the episode-start flag recorded for step t is true exactly if t is
\* the first step or the step before it returned done, also when t is the
\* first step of a segment; so episode_starts[t] = dones[t - 1] for t >= 1,
\* within the arrays of a segment and from one segment to the next.
C23_EpisodeStartIsPreviousDone ==
    /\ \A t \in DOMAIN log :
          log[t].episode_start = (t = 1 \/ log[t - 1].done)
    /\ yields >= 1 =>
          /\ \A i \in 1..(gen.n_samples - 1) :
                seg.seen.episode_starts[i] = seg.seen.dones[i - 1]
          /\ seg.seen.episode_starts[0] =
                (seg.k = 1 \/ log[SegFirst(seg.k) - 1].done)
          /\ Len(log) > SegLast(seg.k) =>
                /\ log[SegLast(seg.k) + 1].episode_start =
                      seg.seen.dones[gen.n_samples - 1]
                /\ SegArrays.episode_starts[0] =
                      seg.seen.dones[gen.n_samples - 1]

\* The last step of the first segment returned done, and the first step of
\* the second segment is recorded as the start of an episode.
C23_Witness ==
    /\ yields >= 1 /\ gen.n_samples = 2 /\ Len(log) >= 3
    /\ ~log[1].done /\ log[2].done
    /\ ~log[2].episode_start /\ log[3].episode_start
    /\ SegArrays.episode_starts[0]

----------------------------------------------------------------------------
(* Further properties of the buffer. *)

\* C24: a fresh buffer of the same capacity that loaded the snapshot of a
\* buffer continues like it: after each insert made on both, the two have
\* the same size, write cursor, last-written index, is_full and can_sample
\* results and slot contents.
C24_RestoredContinuesLikeOriginal ==
    origin # NoSnap =>
        /\ restored.maxsize = buf.maxsize
        /\ BufLen(restored) = BufLen(buf)
        /\ restored.next_idx = buf.next_idx
        /\ restored.current_idx = buf.current_idx
        /\ IsFull(restored) = IsFull(buf)
        /\ CanSampleValue(restored) = CanSampleValue(buf)
        /\ \A i \in 0..(buf.maxsize - 1) : Slot(restored, i) = Slot(buf, i)
        /\ RandInt(0, SampleHigh(restored), restored.batch_size)
              = RandInt(0, SampleHigh(buf), buf.batch_size)

\* A snapshot of a partly filled buffer was loaded, and inserts made on
\* both buffers since have filled them and wrapped around.
C24_Witness ==
    /\ origin # NoSnap
    /\ origin.size >= 1 /\ origin.size < origin.maxsize
    /\ Len(hist) >= origin.size + 2
    /\ IsFull(buf) /\ IsFull(restored)
    /\ hist[Len(hist)] # hist[1]
    /\ Slot(restored, 0) = hist[Len(hist)]
    /\ Slot(buf, 0) = hist[Len(hist)]

====
